---- MODULE Spec2Model ----
(***************************************************************************)
(* Model of the blockchain-runtime crate: the security policy              *)
(* (SecurityConfig), the stateless SecurityValidator checks, the           *)
(* SecurityContext accumulator and the DefaultBlockchainRuntime backend.   *)
(*                                                                         *)
(* Machine integers are modelled at reduced widths (U32Bits, U64Bits,      *)
(* I64Bits) because TLC's integers are 32 bits wide; every comparison and  *)
(* every overflow test is made relative to the width, so u64::MAX is       *)
(* U64_MAX and i64::MAX is I64_MAX here.                                   *)
(***************************************************************************)
EXTENDS Integers, Sequences, FiniteSets, TLC

VARIABLES
    config,      \* SecurityValidator.config (the policy of the validator)
    violations,  \* SecurityContext.violations
    builder,     \* RuntimeConfigBuilder.config, None when no builder is alive
    runtime,     \* the DefaultBlockchainRuntime: blockchain_id, capabilities
    env,         \* the RuntimeEnvironment the caller holds, None before creation
    teardowns,   \* how many times the caller has handed env (or a clone) to destroy
    exec_result, \* the ExecutionResult the caller holds, None before the first
    call,        \* the operation invoked last, with its arguments
    ret          \* the value that operation returned

vars == <<config, violations, builder, runtime, env, teardowns, exec_result, call, ret>>

----------------------------------------------------------------------------
(* Bounds of the model *)

\* width of the model's u32
U32Bits == 12
\* width of the model's u64
U64Bits == 28
\* width of the model's i64
I64Bits == 6
\* longest call stack handed to check_reentrancy
MaxStack == 3
\* largest reading of the system clock (seconds since the epoch)
MaxClock == 1
\* most violations a SecurityContext records
MaxViolations == 3

U32_MAX == 2^U32Bits - 1
U64_MAX == 2^U64Bits - 1
I64_MAX == 2^(I64Bits - 1) - 1
I64_MIN == -(2^(I64Bits - 1))

U32 == 0..U32_MAX
I64 == I64_MIN..I64_MAX
Clock == 0..MaxClock

----------------------------------------------------------------------------
(* constants.rs *)

DEFAULT_MAX_CALL_DEPTH == 1024
DEFAULT_MAX_EXTERNAL_CALLS == 100
DEFAULT_MAX_GAS_LIMIT == 10000000
DEFAULT_MAX_MEMORY_BYTES == 100 * 1024 * 1024

----------------------------------------------------------------------------
(* types.rs: the closed enums, Option and Result *)

SecurityViolationType ==
    {"ReentrancyAttack", "IntegerOverflow", "AccessControlViolation",
     "ResourceLimitExceeded", "SandboxViolation", "CallDepthExceeded",
     "ExternalCallLimitExceeded", "GasLimitExceeded", "MemoryLimitExceeded"}

SecuritySeverity == {"Low", "Medium", "High", "Critical"}

\* Option<T>: None is the empty sequence, Some(x) the one-element sequence
None == <<>>
Some(x) == <<x>>

\* Result<T, E>
Ok(v) == [tag |-> "Ok", val |-> v]
Err(e) == [tag |-> "Err", val |-> e]
\* a panic of the thread that runs the operation (no value is returned)
Panic == [tag |-> "Panic", val |-> "panic"]
Unit == "()"

----------------------------------------------------------------------------
(* security.rs: SecurityConfig *)

SecurityConfig_default ==
    [sandbox_enabled |-> TRUE,
     reentrancy_protection |-> TRUE,
     overflow_detection |-> TRUE,
     access_control_verification |-> TRUE,
     max_call_depth |-> DEFAULT_MAX_CALL_DEPTH,
     max_external_calls |-> DEFAULT_MAX_EXTERNAL_CALLS,
     gas_limit_enforcement |-> TRUE,
     max_gas_limit |-> DEFAULT_MAX_GAS_LIMIT,
     memory_limit_enforcement |-> TRUE,
     max_memory_bytes |-> DEFAULT_MAX_MEMORY_BYTES]

SecurityConfig_new(sandbox_enabled, reentrancy_protection, overflow_detection, access_control_verification) ==
    [sandbox_enabled |-> sandbox_enabled,
     reentrancy_protection |-> reentrancy_protection,
     overflow_detection |-> overflow_detection,
     access_control_verification |-> access_control_verification,
     max_call_depth |-> DEFAULT_MAX_CALL_DEPTH,
     max_external_calls |-> DEFAULT_MAX_EXTERNAL_CALLS,
     gas_limit_enforcement |-> TRUE,
     max_gas_limit |-> DEFAULT_MAX_GAS_LIMIT,
     memory_limit_enforcement |-> TRUE,
     max_memory_bytes |-> DEFAULT_MAX_MEMORY_BYTES]

SecurityConfig_permissive ==
    [sandbox_enabled |-> FALSE,
     reentrancy_protection |-> FALSE,
     overflow_detection |-> FALSE,
     access_control_verification |-> FALSE,
     max_call_depth |-> DEFAULT_MAX_CALL_DEPTH,
     max_external_calls |-> DEFAULT_MAX_EXTERNAL_CALLS,
     gas_limit_enforcement |-> FALSE,
     max_gas_limit |-> U64_MAX,
     memory_limit_enforcement |-> FALSE,
     max_memory_bytes |-> U64_MAX]

SecurityConfig_strict ==
    [sandbox_enabled |-> TRUE,
     reentrancy_protection |-> TRUE,
     overflow_detection |-> TRUE,
     access_control_verification |-> TRUE,
     max_call_depth |-> 100,
     max_external_calls |-> 10,
     gas_limit_enforcement |-> TRUE,
     max_gas_limit |-> 1000000,
     memory_limit_enforcement |-> TRUE,
     max_memory_bytes |-> 10 * 1024 * 1024]

\* The fields of SecurityConfig are public: a caller can build any
\* combination of the six flags with any limits.  The model draws the
\* limits from the three presets, from a small custom policy and from the
\* all-zero policy, and the flags freely.
SecurityConfigFlags ==
    [sandbox_enabled : BOOLEAN,
     reentrancy_protection : BOOLEAN,
     overflow_detection : BOOLEAN,
     access_control_verification : BOOLEAN,
     gas_limit_enforcement : BOOLEAN,
     memory_limit_enforcement : BOOLEAN]

Limits(c, e, g, m) ==
    [max_call_depth |-> c, max_external_calls |-> e,
     max_gas_limit |-> g, max_memory_bytes |-> m]

LimitsOf(cfg) ==
    Limits(cfg.max_call_depth, cfg.max_external_calls,
           cfg.max_gas_limit, cfg.max_memory_bytes)

SecurityConfigLimits ==
    {LimitsOf(SecurityConfig_default),
     LimitsOf(SecurityConfig_permissive),
     LimitsOf(SecurityConfig_strict),
     Limits(3, 2, 100000, 4096),
     Limits(0, 0, 0, 0)}

SecurityConfig == {f @@ l : f \in SecurityConfigFlags, l \in SecurityConfigLimits}

----------------------------------------------------------------------------
(* security.rs: SecurityValidator *)

\* SecurityValidator::create_violation; now is the reading of the system
\* clock, the description is the format string with its arguments.
create_violation(violation_type, description, severity, now) ==
    [violation_type |-> violation_type,
     description |-> description,
     severity |-> severity,
     timestamp |-> now,
     context |-> <<>>]

validate_call_depth_ge(cfg, call_depth, now) ==
    IF call_depth >= cfg.max_call_depth
    THEN Err(create_violation("CallDepthExceeded",
                 <<"Call depth {} exceeds maximum {}", call_depth, cfg.max_call_depth>>,
                 "High", now))
    ELSE Ok(Unit)

validate_call_depth(cfg, call_depth, now) ==
    IF call_depth > cfg.max_call_depth
    THEN Err(create_violation("CallDepthExceeded",
                 <<"Call depth {} exceeds maximum {}", call_depth, cfg.max_call_depth>>,
                 "High", now))
    ELSE Ok(Unit)

validate_external_calls_depth(cfg, call_count, now) ==
    IF call_count > cfg.max_call_depth
    THEN Err(create_violation("ExternalCallLimitExceeded",
                 <<"External call count {} exceeds maximum {}", call_count, cfg.max_call_depth>>,
                 "High", now))
    ELSE Ok(Unit)

validate_external_calls(cfg, call_count, now) ==
    IF call_count > cfg.max_external_calls
    THEN Err(create_violation("ExternalCallLimitExceeded",
                 <<"External call count {} exceeds maximum {}", call_count, cfg.max_external_calls>>,
                 "High", now))
    ELSE Ok(Unit)

validate_gas_usage_unconditional(cfg, gas_used, now) ==
    IF gas_used > cfg.max_gas_limit
    THEN Err(create_violation("GasLimitExceeded",
                 <<"Gas usage {} exceeds maximum {}", gas_used, cfg.max_gas_limit>>,
                 "High", now))
    ELSE Ok(Unit)

validate_gas_usage(cfg, gas_used, now) ==
    IF cfg.gas_limit_enforcement /\ gas_used > cfg.max_gas_limit
    THEN Err(create_violation("GasLimitExceeded",
                 <<"Gas usage {} exceeds maximum {}", gas_used, cfg.max_gas_limit>>,
                 "High", now))
    ELSE Ok(Unit)

validate_memory_usage(cfg, memory_used, now) ==
    IF cfg.memory_limit_enforcement /\ memory_used > cfg.max_memory_bytes
    THEN Err(create_violation("MemoryLimitExceeded",
                 <<"Memory usage {} exceeds maximum {}", memory_used, cfg.max_memory_bytes>>,
                 "High", now))
    ELSE Ok(Unit)

\* call_stack.iter().filter(|&f| f == function_name).count()
RECURSIVE filter_count(_, _)
filter_count(call_stack, function_name) ==
    IF call_stack = <<>> THEN 0
    ELSE (IF Head(call_stack) = function_name THEN 1 ELSE 0)
         + filter_count(Tail(call_stack), function_name)

check_reentrancy_any(cfg, function_name, caller, call_stack, now) ==
    IF ~cfg.reentrancy_protection THEN Ok(FALSE)
    ELSE LET recursive_calls == filter_count(call_stack, function_name)
         IN  IF recursive_calls > 0
             THEN Err(create_violation("ReentrancyAttack",
                          <<"Potential reentrancy attack in function {} called by {}",
                            function_name, caller>>,
                          "Critical", now))
             ELSE Ok(FALSE)

check_reentrancy(cfg, function_name, caller, call_stack, now) ==
    IF ~cfg.reentrancy_protection THEN Ok(FALSE)
    ELSE LET recursive_calls == filter_count(call_stack, function_name)
         IN  IF recursive_calls > 1
             THEN Err(create_violation("ReentrancyAttack",
                          <<"Potential reentrancy attack in function {} called by {}",
                            function_name, caller>>,
                          "Critical", now))
             ELSE Ok(FALSE)

\* str::len / indexing of a slice: operands[i] panics when i is out of range
InBounds(operands, i) == i < Len(operands)
Index(operands, i) == operands[i + 1]

\* i64 arithmetic at the model's width: the wrapped (two's complement) result
wrapping(n) == ((n - I64_MIN) % 2^I64Bits) + I64_MIN

checked_add_upper(a, b) == IF a + b > I64_MAX THEN None ELSE Some(a + b)

\* i64::checked_add: the wrapped sum, None when the wrapped sum is not the sum
checked_add(a, b) ==
    LET wrapped == wrapping(a + b)
    IN  IF wrapped # a + b THEN None ELSE Some(wrapped)

checked_mul_symmetric(a, b) ==
    IF a * b > 2^(I64Bits - 1) \/ -(a * b) > 2^(I64Bits - 1) THEN None ELSE Some(a * b)

\* i64::checked_mul: the wrapped product, None when it is not the product
checked_mul(a, b) ==
    LET wrapped == wrapping(a * b)
    IN  IF wrapped # a * b THEN None ELSE Some(wrapped)

detect_overflow_add(cfg, operands, now) ==
    IF ~InBounds(operands, 0) \/ ~InBounds(operands, 1) THEN Panic
    ELSE LET result == checked_add(Index(operands, 0), Index(operands, 1))
         IN  IF result = None
             THEN Err(create_violation("IntegerOverflow",
                          <<"Integer overflow detected in addition: {} + {}",
                            Index(operands, 0), Index(operands, 1)>>,
                          "High", now))
             ELSE Ok(FALSE)

detect_overflow_mul(cfg, operands, now) ==
    IF ~InBounds(operands, 0) \/ ~InBounds(operands, 1) THEN Panic
    ELSE LET result == checked_mul(Index(operands, 0), Index(operands, 1))
         IN  IF result = None
             THEN Err(create_violation("IntegerOverflow",
                          <<"Integer overflow detected in multiplication: {} * {}",
                            Index(operands, 0), Index(operands, 1)>>,
                          "High", now))
             ELSE Ok(FALSE)

detect_overflow_unguarded(cfg, operation, operands, now) ==
    IF ~cfg.overflow_detection THEN Ok(FALSE)
    ELSE IF operation \in {"add", "+"} THEN detect_overflow_add(cfg, operands, now)
    ELSE IF operation \in {"multiply", "*"} THEN detect_overflow_mul(cfg, operands, now)
    ELSE Ok(FALSE)

detect_overflow(cfg, operation, operands, now) ==
    IF ~cfg.overflow_detection THEN Ok(FALSE)
    ELSE IF operation \in {"add", "+"}
         THEN IF Len(operands) >= 2
              THEN detect_overflow_add(cfg, operands, now)
              ELSE Ok(FALSE)
    ELSE IF operation \in {"multiply", "*"}
         THEN IF Len(operands) >= 2
              THEN detect_overflow_mul(cfg, operands, now)
              ELSE Ok(FALSE)
    ELSE Ok(FALSE)

\* Identifiers whose characters matter are sequences of characters.
STR_admin == <<"a", "d", "m", "i", "n">>

\* str::ends_with
ends_with(s, suffix) ==
    /\ Len(s) >= Len(suffix)
    /\ SubSeq(s, Len(s) - Len(suffix) + 1, Len(s)) = suffix

verify_access_control_prefix(cfg, function_name, caller, required_role, now) ==
    IF ~cfg.access_control_verification THEN Ok(TRUE)
    ELSE IF /\ required_role # None
            /\ required_role[1] = STR_admin
            /\ ~(Len(caller) >= Len(STR_admin)
                  /\ SubSeq(caller, 1, Len(STR_admin)) = STR_admin)
         THEN Err(create_violation("AccessControlViolation",
                      <<"Access denied: {} does not have {} role for function {}",
                        caller, required_role[1], function_name>>,
                      "Medium", now))
         ELSE Ok(TRUE)

verify_access_control(cfg, function_name, caller, required_role, now) ==
    IF ~cfg.access_control_verification THEN Ok(TRUE)
    ELSE IF /\ required_role # None
            /\ required_role[1] = STR_admin
            /\ ~ends_with(caller, STR_admin)
         THEN Err(create_violation("AccessControlViolation",
                      <<"Access denied: {} does not have {} role for function {}",
                        caller, required_role[1], function_name>>,
                      "Medium", now))
         ELSE Ok(TRUE)

----------------------------------------------------------------------------
(* security.rs: SecurityContext *)

\* SecurityContext::new: the validator of the policy and no violations
SecurityContext_new(cfg) == [validator |-> [config |-> cfg], violations |-> <<>>]

add_violation(vs, violation) == Append(vs, violation)

clear_violations(vs) == <<>>

has_critical_violations_all(vs) == \A i \in 1..Len(vs) : vs[i].severity = "Critical"

\* SecurityContext::has_critical_violations: any(|v| v.severity is Critical)
has_critical_violations(vs) == \E i \in 1..Len(vs) : vs[i].severity = "Critical"

\* one pass of the counting loop over the violations not yet visited
RECURSIVE count_loop_swapped(_, _)
count_loop_swapped(vs, counts) ==
    IF vs = <<>> THEN counts
    ELSE LET severity == Head(vs).severity
             critical == counts[1] + (IF severity = "Critical" THEN 1 ELSE 0)
             high     == counts[2] + (IF severity = "High" THEN 1 ELSE 0)
             medium   == counts[3] + (IF severity = "Low" THEN 1 ELSE 0)
             low      == counts[4] + (IF severity = "Medium" THEN 1 ELSE 0)
         IN  count_loop_swapped(Tail(vs), <<critical, high, medium, low>>)

violation_count_by_severity_swapped(vs) == count_loop_swapped(vs, <<0, 0, 0, 0>>)

RECURSIVE count_loop(_, _)
count_loop(vs, counts) ==
    IF vs = <<>> THEN counts
    ELSE LET severity == Head(vs).severity
             critical == counts[1] + (IF severity = "Critical" THEN 1 ELSE 0)
             high     == counts[2] + (IF severity = "High" THEN 1 ELSE 0)
             medium   == counts[3] + (IF severity = "Medium" THEN 1 ELSE 0)
             low      == counts[4] + (IF severity = "Low" THEN 1 ELSE 0)
         IN  count_loop(Tail(vs), <<critical, high, medium, low>>)

\* SecurityContext::violation_count_by_severity: (critical, high, medium, low)
violation_count_by_severity(vs) == count_loop(vs, <<0, 0, 0, 0>>)

----------------------------------------------------------------------------
(* runtime.rs: DefaultBlockchainRuntime *)

\* enforce_resource_limits: every argument is unused, the list is empty
enforce_resource_limits(gas_used, memory_used, call_depth, external_calls, security_config) ==
    Ok(<<>>)

----------------------------------------------------------------------------
(* config.rs: RuntimeConfig and RuntimeConfigBuilder *)

DEFAULT_TIMEOUT_SECONDS == 300
DEFAULT_MEMORY_LIMIT_MB == 1024

NetworkMode == {"Local", "Testnet", "MainnetFork"}

\* HashMap: the empty map, and insert (which replaces the value of the key)
HashMap_new == <<>>
insert(map, key, value) == (key :> value) @@ map

RuntimeConfig_default ==
    [timeout_seconds |-> DEFAULT_TIMEOUT_SECONDS,
     memory_limit_mb |-> DEFAULT_MEMORY_LIMIT_MB,
     network_mode |-> "Local",
     enable_monitoring |-> TRUE,
     blockchain_config |-> HashMap_new,
     security_config |-> SecurityConfig_default]

RuntimeConfig_new(timeout_seconds, memory_limit_mb, network_mode) ==
    [timeout_seconds |-> timeout_seconds,
     memory_limit_mb |-> memory_limit_mb,
     network_mode |-> network_mode,
     enable_monitoring |-> TRUE,
     blockchain_config |-> HashMap_new,
     security_config |-> SecurityConfig_default]

RuntimeConfig_local_development ==
    [timeout_seconds |-> DEFAULT_TIMEOUT_SECONDS,
     memory_limit_mb |-> DEFAULT_MEMORY_LIMIT_MB,
     network_mode |-> "Local",
     enable_monitoring |-> TRUE,
     blockchain_config |-> HashMap_new,
     security_config |-> SecurityConfig_permissive]

RuntimeConfig_production_local ==
    [timeout_seconds |-> DEFAULT_TIMEOUT_SECONDS,
     memory_limit_mb |-> DEFAULT_MEMORY_LIMIT_MB,
     network_mode |-> "Local",
     enable_monitoring |-> TRUE,
     blockchain_config |-> HashMap_new,
     security_config |-> SecurityConfig_strict]

RuntimeConfig_production ==
    [timeout_seconds |-> DEFAULT_TIMEOUT_SECONDS,
     memory_limit_mb |-> DEFAULT_MEMORY_LIMIT_MB,
     network_mode |-> "MainnetFork",
     enable_monitoring |-> TRUE,
     blockchain_config |-> HashMap_new,
     security_config |-> SecurityConfig_strict]

RuntimeConfig_testing ==
    [timeout_seconds |-> 60,
     memory_limit_mb |-> 256,
     network_mode |-> "Local",
     enable_monitoring |-> FALSE,
     blockchain_config |-> HashMap_new,
     security_config |-> SecurityConfig_permissive]

with_security_config(self, security_config) ==
    [self EXCEPT !.security_config = security_config]

with_blockchain_config(self, key, value) ==
    [self EXCEPT !.blockchain_config = insert(self.blockchain_config, key, value)]

with_monitoring(self, enabled) == [self EXCEPT !.enable_monitoring = enabled]

validate_without_memory_bytes(self) ==
    IF self.timeout_seconds = 0 THEN Err("Timeout cannot be zero")
    ELSE IF self.memory_limit_mb = 0 THEN Err("Memory limit cannot be zero")
    ELSE IF self.security_config.max_call_depth = 0
         THEN Err("Maximum call depth cannot be zero")
    ELSE IF self.security_config.max_external_calls = 0
         THEN Err("Maximum external calls cannot be zero")
    ELSE IF self.security_config.max_gas_limit = 0
         THEN Err("Maximum gas limit cannot be zero")
    ELSE Ok(Unit)

\* RuntimeConfig::validate: the first zero limit, in the order of the checks
validate(self) ==
    IF self.timeout_seconds = 0 THEN Err("Timeout cannot be zero")
    ELSE IF self.memory_limit_mb = 0 THEN Err("Memory limit cannot be zero")
    ELSE IF self.security_config.max_call_depth = 0
         THEN Err("Maximum call depth cannot be zero")
    ELSE IF self.security_config.max_external_calls = 0
         THEN Err("Maximum external calls cannot be zero")
    ELSE IF self.security_config.max_gas_limit = 0
         THEN Err("Maximum gas limit cannot be zero")
    ELSE IF self.security_config.max_memory_bytes = 0
         THEN Err("Maximum memory bytes cannot be zero")
    ELSE Ok(Unit)

\* RuntimeConfigBuilder::new
RuntimeConfigBuilder_new == RuntimeConfig_default

\* RuntimeConfigBuilder::build: self.config.validate()?; Ok(self.config)
build(self_config) ==
    LET validated == validate(self_config)
    IN  IF validated.tag = "Err" THEN validated ELSE Ok(self_config)

----------------------------------------------------------------------------
(* types.rs and runtime.rs: environments, executions and their results *)

DEFAULT_MAX_EXECUTION_TIME_SECONDS == 300

EnvironmentState == {"Creating", "Ready", "Running", "Stopped", "Error"}

RuntimeCapabilities_default ==
    [supports_contract_deployment |-> TRUE,
     supports_function_calls |-> TRUE,
     supports_state_inspection |-> TRUE,
     supports_event_monitoring |-> TRUE,
     supports_gas_estimation |-> FALSE,
     supports_time_travel |-> FALSE,
     max_execution_time_seconds |-> DEFAULT_MAX_EXECUTION_TIME_SECONDS]

SecureExecutionContext_default ==
    [call_depth |-> 0,
     external_call_count |-> 0,
     gas_used |-> 0,
     memory_used |-> 0,
     call_stack |-> <<>>,
     access_control_checks |-> <<>>,
     security_violations |-> <<>>]

ExecutionResult_new(execution_id, success) ==
    [execution_id |-> execution_id,
     success |-> success,
     return_value |-> None,
     error |-> None,
     metrics |-> HashMap_new,
     state_changes |-> <<>>,
     events |-> <<>>,
     execution_time_ms |-> 0,
     security_context |-> SecureExecutionContext_default,
     security_violations |-> <<>>]

add_security_violation_fatal(self, violation) ==
    [self EXCEPT !.security_violations = Append(@, violation),
                 !.success = IF violation.severity = "Critical" THEN FALSE ELSE @]

\* ExecutionResult::add_security_violation pushes to the result's own list
add_security_violation(self, violation) ==
    [self EXCEPT !.security_violations = Append(@, violation)]

has_security_violations(self) == self.security_violations # <<>>

\* the array severity_order of get_highest_severity, and position(..).unwrap_or(0)
\* on it (positions count from 0)
severity_order == <<"Low", "Medium", "High", "Critical">>
position(severity) ==
    IF \E i \in 1..Len(severity_order) : severity_order[i] = severity
    THEN (CHOOSE i \in 1..Len(severity_order) : severity_order[i] = severity) - 1
    ELSE 0

\* Iterator::max_by: the last of the greatest elements, None on an empty list
RECURSIVE max_by(_, _)
max_by(severities, best) ==
    IF severities = <<>> THEN best
    ELSE LET x == Head(severities)
         IN  max_by(Tail(severities),
                    IF best = None \/ position(best[1]) <= position(x) THEN Some(x) ELSE best)

get_highest_severity_last(self) ==
    IF self.security_violations = <<>> THEN None
    ELSE Some(self.security_violations[Len(self.security_violations)].severity)

get_highest_severity(self) ==
    max_by([i \in 1..Len(self.security_violations) |-> self.security_violations[i].severity],
           None)

DefaultBlockchainRuntime_new(id) ==
    [blockchain_id |-> id, capabilities |-> RuntimeCapabilities_default]

DefaultBlockchainRuntime_with_capabilities(id, caps) ==
    [blockchain_id |-> id, capabilities |-> caps]

blockchain_id(self) == self.blockchain_id

create_environment_creating(self, _config, now) ==
    Ok([environment_id |-> <<"env_", now>>,
        blockchain_id |-> self.blockchain_id,
        runtime_type |-> "LocalProcess",
        endpoint_url |-> "http://localhost:8545",
        state |-> "Creating",
        metadata |-> HashMap_new])

\* create_environment: the configuration is unused; now is the clock reading
\* (milliseconds since the epoch) that names the environment
create_environment(self, _config, now) ==
    Ok([environment_id |-> <<"env_", now>>,
        blockchain_id |-> self.blockchain_id,
        runtime_type |-> "LocalProcess",
        endpoint_url |-> "http://localhost:8545",
        state |-> "Ready",
        metadata |-> HashMap_new])

\* execute: every argument is unused
execute(self, _env, _code_path, _inputs) == Ok(ExecutionResult_new("exec_123", TRUE))

metrics_definition(self) ==
    <<[name |-> "gas_used", description |-> "Gas consumed during execution",
       unit |-> "gas", metric_type |-> "Gas"],
      [name |-> "execution_time", description |-> "Time taken to execute",
       unit |-> "ms", metric_type |-> "Time"]>>

\* destroy takes the environment by value and does nothing with it
destroy(self, _env) == Ok(Unit)

is_available(self) == TRUE

capabilities(self) == self.capabilities

execute_secure_tracking(self, _env, _code_path, _inputs, _security_config) ==
    LET executed == execute(self, _env, _code_path, _inputs)
    IN  IF executed.tag = "Err" THEN executed
        ELSE Ok([executed.val EXCEPT
                    !.security_context =
                        [SecureExecutionContext_default EXCEPT
                            !.call_depth = 1,
                            !.call_stack = <<_inputs.target_function>>]])

execute_secure_enforcing(self, _env, _code_path, _inputs, _security_config) ==
    LET executed == execute(self, _env, _code_path, _inputs)
    IN  IF executed.tag = "Err" THEN executed
        ELSE Ok([executed.val EXCEPT
                    !.security_context = SecureExecutionContext_default,
                    !.success = ~_security_config.sandbox_enabled])

\* execute_secure: the plain execution with a default context attached
execute_secure(self, _env, _code_path, _inputs, _security_config) ==
    LET executed == execute(self, _env, _code_path, _inputs)
    IN  IF executed.tag = "Err" THEN executed
        ELSE Ok([executed.val EXCEPT
                    !.security_context = SecureExecutionContext_default])

----------------------------------------------------------------------------
(* Inputs *)

InU32(S) == S \cap U32
InU64(S) == S \cap (0..U64_MAX)

\* measurements around a limit, the extremes of the type, and a few small ones
DepthInputs(limit) == InU32((0..4) \cup {limit - 1, limit, limit + 1, U32_MAX})
CountInputs(limit) == InU32((0..3) \cup {limit - 1, limit, limit + 1, U32_MAX})
\* 500_000 is the usage of the preset scenario
UsageInputs(limit) == InU64({0, 500000, limit - 1, limit, limit + 1, U64_MAX})

\* function names, and the call stacks over them
FunctionNames == {"a", "b"}
RECURSIVE SeqsUpTo(_, _)
SeqsUpTo(S, n) ==
    IF n = 0 THEN {<<>>}
    ELSE LET shorter == SeqsUpTo(S, n - 1)
         IN  shorter \cup {Append(s, x) : s \in {t \in shorter : Len(t) = n - 1}, x \in S}
CallStacks == SeqsUpTo(FunctionNames, MaxStack)

\* callers and roles of the access-control check
Callers ==
    {STR_admin,
     <<"0", "x">> \o STR_admin,
     STR_admin \o <<"x">>,
     <<"a", "d", "m", "i">>,
     <<"m", "i", "n">>,
     <<"A", "d", "m", "i", "n">>,
     <<"u", "s", "e", "r">>,
     <<>>}
Roles ==
    {None, Some(STR_admin), Some(<<"u", "s", "e", "r">>),
     Some(<<"A", "d", "m", "i", "n">>), Some(<<>>)}

\* operation names and operand lists of the overflow check: every list of
\* at most two operands, and longer lists over the extremes
Operations == {"add", "+", "multiply", "*", "subtract", ""}
OperandLists ==
    SeqsUpTo(I64, 2) \cup {<<a, b, c>> : a \in {I64_MIN, I64_MAX}, b \in {-1, 1}, c \in {I64_MAX}}

----------------------------------------------------------------------------
(* The validator: constructed by SecurityValidator::new(config) with any   *)
(* policy; a caller invokes one of its checks (call) and the check         *)
(* returns (ret).                                                          *)

NoCall == [op |-> "none"]
Pending == [tag |-> "Pending", val |-> "pending"]
Returned == ret.tag # "Pending"

ValidatorCalls(cfg) ==
    {[op |-> "validate_call_depth", call_depth |-> d] :
        d \in DepthInputs(cfg.max_call_depth)}
    \cup {[op |-> "validate_external_calls", call_count |-> c] :
        c \in CountInputs(cfg.max_external_calls)}
    \cup {[op |-> "validate_gas_usage", gas_used |-> g] :
        g \in UsageInputs(cfg.max_gas_limit)}
    \cup {[op |-> "validate_memory_usage", memory_used |-> m] :
        m \in UsageInputs(cfg.max_memory_bytes)}
    \cup {[op |-> "check_reentrancy", function_name |-> f, caller |-> c, call_stack |-> s] :
        f \in FunctionNames, c \in {<<"u", "s", "e", "r">>}, s \in CallStacks}
    \cup {[op |-> "verify_access_control", function_name |-> f, caller |-> c,
           required_role |-> r] :
        f \in {"a"}, c \in Callers, r \in Roles}

InitValidator ==
    /\ config \in SecurityConfig
    /\ violations = <<>>
    /\ builder = None /\ runtime = None /\ env = None /\ teardowns = 0 /\ exec_result = None
    /\ call \in ValidatorCalls(config)
    /\ ret = Pending

ValidateCallDepth ==
    /\ call.op = "validate_call_depth" /\ ~Returned
    /\ \E now \in Clock : ret' = validate_call_depth(config, call.call_depth, now)
    /\ UNCHANGED <<config, violations, builder, runtime, env, teardowns, exec_result, call>>

ValidateExternalCalls ==
    /\ call.op = "validate_external_calls" /\ ~Returned
    /\ \E now \in Clock : ret' = validate_external_calls(config, call.call_count, now)
    /\ UNCHANGED <<config, violations, builder, runtime, env, teardowns, exec_result, call>>

ValidateGasUsage ==
    /\ call.op = "validate_gas_usage" /\ ~Returned
    /\ \E now \in Clock : ret' = validate_gas_usage(config, call.gas_used, now)
    /\ UNCHANGED <<config, violations, builder, runtime, env, teardowns, exec_result, call>>

ValidateMemoryUsage ==
    /\ call.op = "validate_memory_usage" /\ ~Returned
    /\ \E now \in Clock : ret' = validate_memory_usage(config, call.memory_used, now)
    /\ UNCHANGED <<config, violations, builder, runtime, env, teardowns, exec_result, call>>

CheckReentrancy ==
    /\ call.op = "check_reentrancy" /\ ~Returned
    /\ \E now \in Clock :
          ret' = check_reentrancy(config, call.function_name, call.caller,
                                  call.call_stack, now)
    /\ UNCHANGED <<config, violations, builder, runtime, env, teardowns, exec_result, call>>

VerifyAccessControl ==
    /\ call.op = "verify_access_control" /\ ~Returned
    /\ \E now \in Clock :
          ret' = verify_access_control(config, call.function_name, call.caller,
                                       call.required_role, now)
    /\ UNCHANGED <<config, violations, builder, runtime, env, teardowns, exec_result, call>>

NextValidator ==
    \/ ValidateCallDepth
    \/ ValidateExternalCalls
    \/ ValidateGasUsage
    \/ ValidateMemoryUsage
    \/ CheckReentrancy
    \/ VerifyAccessControl

SpecValidator == InitValidator /\ [][NextValidator]_vars

----------------------------------------------------------------------------
(* The overflow check of the validator, over every pair of operands *)

OverflowCalls ==
    {[op |-> "detect_overflow", operation |-> o, operands |-> l] :
        o \in Operations, l \in OperandLists}

\* the policies of the overflow check: overflow_detection on or off, the
\* five other flags all on or all off, the default limits
OverflowPolicies ==
    {f @@ LimitsOf(SecurityConfig_default) :
        f \in {g \in SecurityConfigFlags :
                  /\ g.sandbox_enabled = g.reentrancy_protection
                  /\ g.sandbox_enabled = g.access_control_verification
                  /\ g.sandbox_enabled = g.gas_limit_enforcement
                  /\ g.sandbox_enabled = g.memory_limit_enforcement}}

InitOverflow ==
    /\ config \in OverflowPolicies
    /\ violations = <<>>
    /\ builder = None /\ runtime = None /\ env = None /\ teardowns = 0 /\ exec_result = None
    /\ call \in OverflowCalls
    /\ ret = Pending

DetectOverflow ==
    /\ call.op = "detect_overflow" /\ ~Returned
    /\ \E now \in Clock :
          ret' = detect_overflow(config, call.operation, call.operands, now)
    /\ UNCHANGED <<config, violations, builder, runtime, env, teardowns, exec_result, call>>

NextOverflow ==
    \/ DetectOverflow

SpecOverflow == InitOverflow /\ [][NextOverflow]_vars

----------------------------------------------------------------------------
(* The default runtime's batch enforcement of the four resource limits *)

EnforcePolicies ==
    {SecurityConfig_default, SecurityConfig_permissive, SecurityConfig_strict,
     Limits(3, 2, 100000, 4096) @@ SecurityConfig_new(TRUE, TRUE, TRUE, TRUE),
     Limits(3, 2, 100000, 4096) @@ SecurityConfig_permissive}

EnforceCalls ==
    UNION {
        {[op |-> "enforce_resource_limits", gas_used |-> g, memory_used |-> m,
          call_depth |-> d, external_calls |-> e, security_config |-> p] :
            g \in InU64({0, p.max_gas_limit, p.max_gas_limit + 1}),
            m \in InU64({0, p.max_memory_bytes, p.max_memory_bytes + 1}),
            d \in InU32({0, p.max_call_depth, p.max_call_depth + 1}),
            e \in InU32({0, p.max_external_calls, p.max_external_calls + 1})}
        : p \in EnforcePolicies}

\* the runtime holds neither a validator nor a context: config and
\* violations stay as they are
InitRuntime ==
    /\ config = SecurityConfig_default
    /\ violations = <<>>
    /\ builder = None /\ runtime = None /\ env = None /\ teardowns = 0 /\ exec_result = None
    /\ call \in EnforceCalls
    /\ ret = Pending

EnforceResourceLimits ==
    /\ call.op = "enforce_resource_limits" /\ ~Returned
    /\ ret' = enforce_resource_limits(call.gas_used, call.memory_used, call.call_depth,
                                      call.external_calls, call.security_config)
    /\ UNCHANGED <<config, violations, builder, runtime, env, teardowns, exec_result, call>>

NextRuntime ==
    \/ EnforceResourceLimits

SpecRuntime == InitRuntime /\ [][NextRuntime]_vars

----------------------------------------------------------------------------
(* A SecurityContext: created by SecurityContext::new(config), then used   *)
(* through its methods in any order.                                       *)

\* the violations a caller records: one of every severity, two of High
ViolationSamples ==
    {create_violation("ReentrancyAttack", <<"reentrancy">>, "Critical", 0),
     create_violation("CallDepthExceeded", <<"call depth">>, "High", 0),
     create_violation("IntegerOverflow", <<"overflow">>, "High", 1),
     create_violation("AccessControlViolation", <<"access">>, "Medium", 0),
     create_violation("SandboxViolation", <<"sandbox">>, "Low", 1)}

InitContext ==
    /\ config \in {SecurityConfig_default, SecurityConfig_permissive, SecurityConfig_strict}
    /\ violations = SecurityContext_new(config).violations
    /\ builder = None /\ runtime = None /\ env = None /\ teardowns = 0 /\ exec_result = None
    /\ call = NoCall
    /\ ret = Ok(Unit)

AddViolation ==
    /\ Len(violations) < MaxViolations
    /\ \E violation \in ViolationSamples :
          /\ violations' = add_violation(violations, violation)
          /\ call' = [op |-> "add_violation", violation |-> violation]
    /\ ret' = Ok(Unit)
    /\ UNCHANGED <<config, builder, runtime, env, teardowns, exec_result>>

ClearViolations ==
    /\ violations' = clear_violations(violations)
    /\ call' = [op |-> "clear_violations"]
    /\ ret' = Ok(Unit)
    /\ UNCHANGED <<config, builder, runtime, env, teardowns, exec_result>>

HasCriticalViolations ==
    /\ call' = [op |-> "has_critical_violations"]
    /\ ret' = Ok(has_critical_violations(violations))
    /\ UNCHANGED <<config, violations, builder, runtime, env, teardowns, exec_result>>

ViolationCountBySeverity ==
    /\ call' = [op |-> "violation_count_by_severity"]
    /\ ret' = Ok(violation_count_by_severity(violations))
    /\ UNCHANGED <<config, violations, builder, runtime, env, teardowns, exec_result>>

NextContext ==
    \/ AddViolation
    \/ ClearViolations
    \/ HasCriticalViolations
    \/ ViolationCountBySeverity

SpecContext == InitContext /\ [][NextContext]_vars

----------------------------------------------------------------------------
(* Configurations: a RuntimeConfigBuilder is created, its setters are       *)
(* called in any order and it is consumed by build(); or a RuntimeConfig   *)
(* is made by one of its constructors, changed by the with_ methods and    *)
(* validated.                                                              *)

\* the policies handed to a configuration: the presets, the default policy
\* with one limit zero, and the default policy with every limit zero
ConfigPolicies ==
    {SecurityConfig_default, SecurityConfig_permissive, SecurityConfig_strict,
     Limits(0, DEFAULT_MAX_EXTERNAL_CALLS, DEFAULT_MAX_GAS_LIMIT, DEFAULT_MAX_MEMORY_BYTES)
        @@ SecurityConfig_default,
     Limits(DEFAULT_MAX_CALL_DEPTH, 0, DEFAULT_MAX_GAS_LIMIT, DEFAULT_MAX_MEMORY_BYTES)
        @@ SecurityConfig_default,
     Limits(DEFAULT_MAX_CALL_DEPTH, DEFAULT_MAX_EXTERNAL_CALLS, 0, DEFAULT_MAX_MEMORY_BYTES)
        @@ SecurityConfig_default,
     Limits(DEFAULT_MAX_CALL_DEPTH, DEFAULT_MAX_EXTERNAL_CALLS, DEFAULT_MAX_GAS_LIMIT, 0)
        @@ SecurityConfig_default,
     Limits(0, 0, 0, 0) @@ SecurityConfig_default}
TimeoutInputs == {0, 60, DEFAULT_TIMEOUT_SECONDS}
MemoryLimitInputs == {0, 256, DEFAULT_MEMORY_LIMIT_MB}

\* the operations that return a RuntimeConfig
ConfigProducers ==
    {"default", "new", "local_development", "production", "testing",
     "with_security_config", "with_monitoring", "with_blockchain_config"}

InitConfig ==
    /\ config = SecurityConfig_default
    /\ violations = <<>>
    /\ builder = None /\ runtime = None /\ env = None /\ teardowns = 0 /\ exec_result = None
    /\ call = NoCall
    /\ ret = Ok(Unit)

ConfigFrame == UNCHANGED <<config, violations, runtime, env, teardowns, exec_result>>

BuilderNew ==
    /\ builder = None
    /\ builder' = Some(RuntimeConfigBuilder_new)
    /\ call' = [op |-> "RuntimeConfigBuilder::new"]
    /\ ret' = Ok(Unit)
    /\ ConfigFrame

BuilderTimeoutSeconds ==
    /\ builder # None
    /\ \E seconds \in TimeoutInputs :
          /\ builder' = Some([builder[1] EXCEPT !.timeout_seconds = seconds])
          /\ call' = [op |-> "timeout_seconds", seconds |-> seconds]
    /\ ret' = Ok(Unit)
    /\ ConfigFrame

BuilderMemoryLimitMb ==
    /\ builder # None
    /\ \E mb \in MemoryLimitInputs :
          /\ builder' = Some([builder[1] EXCEPT !.memory_limit_mb = mb])
          /\ call' = [op |-> "memory_limit_mb", mb |-> mb]
    /\ ret' = Ok(Unit)
    /\ ConfigFrame

BuilderNetworkMode ==
    /\ builder # None
    /\ \E mode \in NetworkMode :
          /\ builder' = Some([builder[1] EXCEPT !.network_mode = mode])
          /\ call' = [op |-> "network_mode", mode |-> mode]
    /\ ret' = Ok(Unit)
    /\ ConfigFrame

BuilderMonitoring ==
    /\ builder # None
    /\ \E enabled \in BOOLEAN :
          /\ builder' = Some([builder[1] EXCEPT !.enable_monitoring = enabled])
          /\ call' = [op |-> "monitoring", enabled |-> enabled]
    /\ ret' = Ok(Unit)
    /\ ConfigFrame

BuilderSecurityConfig ==
    /\ builder # None
    /\ \E security_config \in ConfigPolicies :
          /\ builder' = Some([builder[1] EXCEPT !.security_config = security_config])
          /\ call' = [op |-> "security_config", config |-> security_config]
    /\ ret' = Ok(Unit)
    /\ ConfigFrame

BuilderBlockchainConfig ==
    /\ builder # None
    /\ builder' = Some([builder[1] EXCEPT
                          !.blockchain_config = insert(builder[1].blockchain_config, "chain_id", 1)])
    /\ call' = [op |-> "blockchain_config", key |-> "chain_id", value |-> 1]
    /\ ret' = Ok(Unit)
    /\ ConfigFrame

\* build(self) consumes the builder
BuilderBuild ==
    /\ builder # None
    /\ call' = [op |-> "build", config |-> builder[1]]
    /\ ret' = build(builder[1])
    /\ builder' = None
    /\ ConfigFrame

ConfigConstruct ==
    /\ builder = None
    /\ \/ call' = [op |-> "default"] /\ ret' = RuntimeConfig_default
       \/ call' = [op |-> "local_development"] /\ ret' = RuntimeConfig_local_development
       \/ call' = [op |-> "production"] /\ ret' = RuntimeConfig_production
       \/ call' = [op |-> "testing"] /\ ret' = RuntimeConfig_testing
       \/ \E t \in TimeoutInputs, m \in MemoryLimitInputs, n \in {"Local", "Testnet"} :
             /\ call' = [op |-> "new"]
             /\ ret' = RuntimeConfig_new(t, m, n)
    /\ UNCHANGED builder
    /\ ConfigFrame

ConfigWithSecurityConfig ==
    /\ builder = None /\ call.op \in ConfigProducers
    /\ \E security_config \in ConfigPolicies :
          ret' = with_security_config(ret, security_config)
    /\ call' = [op |-> "with_security_config"]
    /\ UNCHANGED builder
    /\ ConfigFrame

ConfigWithMonitoring ==
    /\ builder = None /\ call.op \in ConfigProducers
    /\ \E enabled \in BOOLEAN : ret' = with_monitoring(ret, enabled)
    /\ call' = [op |-> "with_monitoring"]
    /\ UNCHANGED builder
    /\ ConfigFrame

ConfigWithBlockchainConfig ==
    /\ builder = None /\ call.op \in ConfigProducers
    /\ ret' = with_blockchain_config(ret, "chain_id", 1)
    /\ call' = [op |-> "with_blockchain_config"]
    /\ UNCHANGED builder
    /\ ConfigFrame

\* validate(&self) on the configuration the last operation returned
ConfigValidate ==
    /\ builder = None /\ call.op \in ConfigProducers
    /\ call' = [op |-> "validate", config |-> ret, from |-> call.op]
    /\ ret' = validate(ret)
    /\ UNCHANGED builder
    /\ ConfigFrame

NextConfig ==
    \/ BuilderNew
    \/ BuilderTimeoutSeconds
    \/ BuilderMemoryLimitMb
    \/ BuilderNetworkMode
    \/ BuilderMonitoring
    \/ BuilderSecurityConfig
    \/ BuilderBlockchainConfig
    \/ BuilderBuild
    \/ ConfigConstruct
    \/ ConfigWithSecurityConfig
    \/ ConfigWithMonitoring
    \/ ConfigWithBlockchainConfig
    \/ ConfigValidate

SpecConfig == InitConfig /\ [][NextConfig]_vars

----------------------------------------------------------------------------
(* The life of an environment: a DefaultBlockchainRuntime is constructed, *)
(* the caller creates an environment with it, keeps the value (env), runs  *)
(* executions on it and hands it (or a clone of it) to destroy. The fields *)
(* of RuntimeEnvironment are public, so the caller can also set its state. *)
(* teardowns counts the destroy calls made on the environment.             *)

\* most destroy calls followed on one environment
MaxTeardowns == 2

BlockchainIds == {"ethereum", "solana"}
CapabilityInputs ==
    {RuntimeCapabilities_default,
     [RuntimeCapabilities_default EXCEPT
        !.supports_gas_estimation = TRUE, !.max_execution_time_seconds = 60]}
\* the configurations passed to create_environment
EnvironmentConfigs ==
    {RuntimeConfig_default, RuntimeConfig_production,
     with_security_config(RuntimeConfig_default, Limits(0, 0, 0, 0) @@ SecurityConfig_default),
     RuntimeConfig_new(0, 0, "Testnet")}
ExecutionInputs ==
    {[target_function |-> f, parameters |-> HashMap_new] : f \in FunctionNames}
\* the policies passed to execute_secure
SecurePolicies ==
    {SecurityConfig_default, SecurityConfig_strict, SecurityConfig_permissive,
     Limits(0, 0, 0, 0) @@ SecurityConfig_strict}
CodePaths == {"contract.sol"}

InitLifecycle ==
    /\ config = SecurityConfig_default
    /\ violations = <<>>
    /\ builder = None /\ runtime = None /\ env = None /\ teardowns = 0 /\ exec_result = None
    /\ call = NoCall
    /\ ret = Ok(Unit)

RuntimeNew ==
    /\ runtime = None
    /\ \E id \in BlockchainIds : runtime' = Some(DefaultBlockchainRuntime_new(id))
    /\ call' = [op |-> "DefaultBlockchainRuntime::new"]
    /\ ret' = Ok(Unit)
    /\ UNCHANGED <<config, violations, builder, env, teardowns, exec_result>>

RuntimeWithCapabilities ==
    /\ runtime = None
    /\ \E id \in BlockchainIds, caps \in CapabilityInputs :
          runtime' = Some(DefaultBlockchainRuntime_with_capabilities(id, caps))
    /\ call' = [op |-> "DefaultBlockchainRuntime::with_capabilities"]
    /\ ret' = Ok(Unit)
    /\ UNCHANGED <<config, violations, builder, env, teardowns, exec_result>>

CreateEnvironment ==
    /\ runtime # None /\ env = None
    /\ \E runtime_config \in EnvironmentConfigs, now \in Clock :
          /\ call' = [op |-> "create_environment", config |-> runtime_config]
          /\ ret' = create_environment(runtime[1], runtime_config, now)
    /\ env' = IF ret'.tag = "Ok" THEN Some(ret'.val) ELSE None
    /\ teardowns' = 0
    /\ UNCHANGED <<config, violations, builder, runtime, exec_result>>

\* the caller assigns the public field state of its environment
EnvironmentSetState ==
    /\ env # None
    /\ \E state \in EnvironmentState :
          /\ env' = Some([env[1] EXCEPT !.state = state])
          /\ call' = [op |-> "env.state =", state |-> state]
    /\ ret' = Ok(Unit)
    /\ UNCHANGED <<config, violations, builder, runtime, teardowns, exec_result>>

\* execute borrows the environment (&RuntimeEnvironment)
Execute ==
    /\ runtime # None /\ env # None
    /\ \E code_path \in CodePaths, inputs \in ExecutionInputs :
          /\ call' = [op |-> "execute", env |-> env[1], inputs |-> inputs,
                      code_path |-> code_path]
          /\ ret' = execute(runtime[1], env[1], code_path, inputs)
    /\ exec_result' = IF ret'.tag = "Ok" THEN Some(ret'.val) ELSE exec_result
    /\ UNCHANGED <<config, violations, builder, runtime, env, teardowns>>

ExecuteSecure ==
    /\ runtime # None /\ env # None
    /\ \E code_path \in CodePaths, inputs \in ExecutionInputs,
          security_config \in SecurePolicies :
          /\ call' = [op |-> "execute_secure", env |-> env[1], inputs |-> inputs,
                      code_path |-> code_path, security_config |-> security_config]
          /\ ret' = execute_secure(runtime[1], env[1], code_path, inputs, security_config)
    /\ exec_result' = IF ret'.tag = "Ok" THEN Some(ret'.val) ELSE exec_result
    /\ UNCHANGED <<config, violations, builder, runtime, env, teardowns>>

\* destroy consumes the value it is given: the caller's environment, or a
\* clone of it (RuntimeEnvironment derives Clone) that the caller keeps
Destroy ==
    /\ runtime # None /\ env # None /\ teardowns < MaxTeardowns
    /\ call' = [op |-> "destroy", env |-> env[1]]
    /\ ret' = destroy(runtime[1], env[1])
    /\ teardowns' = IF ret'.tag = "Ok" THEN teardowns + 1 ELSE teardowns
    /\ \/ env' = None
       \/ env' = env
    /\ UNCHANGED <<config, violations, builder, runtime, exec_result>>

BlockchainId ==
    /\ runtime # None
    /\ call' = [op |-> "blockchain_id"]
    /\ ret' = blockchain_id(runtime[1])
    /\ UNCHANGED <<config, violations, builder, runtime, env, teardowns, exec_result>>

MetricsDefinition ==
    /\ runtime # None
    /\ call' = [op |-> "metrics_definition"]
    /\ ret' = metrics_definition(runtime[1])
    /\ UNCHANGED <<config, violations, builder, runtime, env, teardowns, exec_result>>

IsAvailable_probing ==
    /\ runtime # None /\ env # None
    /\ call' = [op |-> "is_available"]
    /\ ret' = is_available(runtime[1])
    /\ env' = Some([env[1] EXCEPT !.state = "Error"])
    /\ UNCHANGED <<config, violations, builder, runtime, teardowns, exec_result>>

IsAvailable ==
    /\ runtime # None
    /\ call' = [op |-> "is_available"]
    /\ ret' = is_available(runtime[1])
    /\ UNCHANGED <<config, violations, builder, runtime, env, teardowns, exec_result>>

Capabilities ==
    /\ runtime # None
    /\ call' = [op |-> "capabilities"]
    /\ ret' = capabilities(runtime[1])
    /\ UNCHANGED <<config, violations, builder, runtime, env, teardowns, exec_result>>

NextLifecycle ==
    \/ RuntimeNew
    \/ RuntimeWithCapabilities
    \/ CreateEnvironment
    \/ EnvironmentSetState
    \/ Execute
    \/ ExecuteSecure
    \/ Destroy
    \/ BlockchainId
    \/ MetricsDefinition
    \/ IsAvailable
    \/ Capabilities

SpecLifecycle == InitLifecycle /\ [][NextLifecycle]_vars

----------------------------------------------------------------------------
(* An ExecutionResult in the hands of a caller: constructed by            *)
(* ExecutionResult::new, then given security violations.                   *)

ExecutionIds == {"exec_1", "exec_123"}

InitResult ==
    /\ config = SecurityConfig_default
    /\ violations = <<>>
    /\ builder = None /\ runtime = None /\ env = None /\ teardowns = 0 /\ exec_result = None
    /\ call = NoCall
    /\ ret = Ok(Unit)

ResultNew ==
    /\ \E execution_id \in ExecutionIds, success \in BOOLEAN :
          /\ exec_result' = Some(ExecutionResult_new(execution_id, success))
          /\ call' = [op |-> "ExecutionResult::new", success |-> success]
    /\ ret' = Ok(Unit)
    /\ UNCHANGED <<config, violations, builder, runtime, env, teardowns>>

ResultAddSecurityViolation ==
    /\ exec_result # None
    /\ Len(exec_result[1].security_violations) < MaxViolations
    /\ \E violation \in ViolationSamples :
          exec_result' = Some(add_security_violation(exec_result[1], violation))
    /\ call' = [op |-> "add_security_violation"]
    /\ ret' = Ok(Unit)
    /\ UNCHANGED <<config, violations, builder, runtime, env, teardowns>>

ResultHasSecurityViolations ==
    /\ exec_result # None
    /\ call' = [op |-> "has_security_violations"]
    /\ ret' = has_security_violations(exec_result[1])
    /\ UNCHANGED <<config, violations, builder, runtime, env, teardowns, exec_result>>

ResultGetHighestSeverity ==
    /\ exec_result # None
    /\ call' = [op |-> "get_highest_severity"]
    /\ ret' = get_highest_severity(exec_result[1])
    /\ UNCHANGED <<config, violations, builder, runtime, env, teardowns, exec_result>>

NextResult ==
    \/ ResultNew
    \/ ResultAddSecurityViolation
    \/ ResultHasSecurityViolations
    \/ ResultGetHighestSeverity

SpecResult == InitResult /\ [][NextResult]_vars

----------------------------------------------------------------------------
(* Several executions share one SecurityValidator (&self) and issue       *)
(* checks against it concurrently: call[e] is the check execution e has    *)
(* invoked, ret[e] what it returned. An invocation and its return are      *)
(* separate steps, so the checks of different executions overlap in every  *)
(* order.                                                                  *)

\* number of executions sharing the validator
NumExecutions == 2
Executions == 1..NumExecutions

\* the check named by a call record, on the validator's policy
run_check(cfg, c, now) ==
    CASE c.op = "validate_call_depth" -> validate_call_depth(cfg, c.call_depth, now)
      [] c.op = "validate_external_calls" -> validate_external_calls(cfg, c.call_count, now)
      [] c.op = "validate_gas_usage" -> validate_gas_usage(cfg, c.gas_used, now)
      [] c.op = "validate_memory_usage" -> validate_memory_usage(cfg, c.memory_used, now)
      [] c.op = "check_reentrancy" ->
            check_reentrancy(cfg, c.function_name, c.caller, c.call_stack, now)
      [] c.op = "verify_access_control" ->
            verify_access_control(cfg, c.function_name, c.caller, c.required_role, now)

SharedPolicies ==
    {SecurityConfig_default,
     Limits(3, 2, 100000, 4096) @@ SecurityConfig_strict,
     Limits(3, 2, 100000, 4096) @@ SecurityConfig_permissive}

\* the checks an execution issues: at and just above each limit, a call
\* stack with the function twice and once, a caller with and without the role
SharedCalls(cfg) ==
    {c \in ValidatorCalls(cfg) :
        \/ c.op = "validate_call_depth"
              /\ c.call_depth \in {cfg.max_call_depth, cfg.max_call_depth + 1}
        \/ c.op = "validate_external_calls" /\ c.call_count = cfg.max_external_calls + 1
        \/ c.op = "validate_gas_usage"
              /\ c.gas_used \in {cfg.max_gas_limit, cfg.max_gas_limit + 1}
        \/ c.op = "validate_memory_usage" /\ c.memory_used = cfg.max_memory_bytes + 1
        \/ c.op = "check_reentrancy" /\ c.function_name = "a"
              /\ c.call_stack \in {<<"a", "a">>, <<"a", "b">>}
        \/ c.op = "verify_access_control" /\ c.required_role = Some(STR_admin)
              /\ c.caller \in {STR_admin, <<"u", "s", "e", "r">>}}

InitShared ==
    /\ config \in SharedPolicies
    /\ violations = <<>>
    /\ builder = None /\ runtime = None /\ env = None /\ teardowns = 0 /\ exec_result = None
    /\ call = [e \in Executions |-> NoCall]
    /\ ret = [e \in Executions |-> Ok(Unit)]

\* execution e invokes a check on the shared validator
CheckCall(e) ==
    /\ ret[e].tag # "Pending"
    /\ \E c \in SharedCalls(config) : call' = [call EXCEPT ![e] = c]
    /\ ret' = [ret EXCEPT ![e] = Pending]
    /\ UNCHANGED <<config, violations, builder, runtime, env, teardowns, exec_result>>

CheckReturn_recording(e) ==
    /\ ret[e].tag = "Pending"
    /\ \E now \in Clock : ret' = [ret EXCEPT ![e] = run_check(config, call[e], now)]
    /\ violations' = IF ret'[e].tag = "Err" /\ Len(violations) < MaxViolations
                     THEN Append(violations, ret'[e].val) ELSE violations
    /\ UNCHANGED <<config, builder, runtime, env, teardowns, exec_result, call>>

\* the check of execution e reads the policy and the clock and returns
CheckReturn(e) ==
    /\ ret[e].tag = "Pending"
    /\ \E now \in Clock : ret' = [ret EXCEPT ![e] = run_check(config, call[e], now)]
    /\ UNCHANGED <<config, violations, builder, runtime, env, teardowns, exec_result, call>>

NextShared ==
    \/ \E e \in Executions : CheckCall(e)
    \/ \E e \in Executions : CheckReturn(e)

SpecShared == InitShared /\ [][NextShared]_vars

----------------------------------------------------------------------------
(* Concurrent executions, each with the SecurityContext it created:       *)
(* violations[e] is the log of the context of execution e, call[e] the     *)
(* last operation of e on its context together with the violations e has   *)
(* handed to add_violation since it last emptied the context (recorded).   *)

\* most violations one execution records in its context
MaxRecorded == 2

OwnedSamples ==
    {v \in ViolationSamples : v.severity \in {"Critical", "Medium"}}

InitOwned ==
    /\ config = SecurityConfig_default
    /\ violations = [e \in Executions |-> SecurityContext_new(config).violations]
    /\ builder = None /\ runtime = None /\ env = None /\ teardowns = 0 /\ exec_result = None
    /\ call = [e \in Executions |-> [op |-> "SecurityContext::new", recorded |-> <<>>]]
    /\ ret = [e \in Executions |-> Ok(Unit)]

OwnedAddViolation_shared(e) ==
    /\ \A o \in Executions : Len(violations[o]) < MaxRecorded
    /\ \E violation \in OwnedSamples :
          /\ violations' = [o \in Executions |-> add_violation(violations[o], violation)]
          /\ call' = [call EXCEPT ![e] = [op |-> "add_violation",
                                          recorded |-> Append(call[e].recorded, violation)]]
    /\ ret' = [ret EXCEPT ![e] = Ok(Unit)]
    /\ UNCHANGED <<config, builder, runtime, env, teardowns, exec_result>>

\* execution e calls add_violation(&mut self, violation) on its own context
OwnedAddViolation(e) ==
    /\ Len(violations[e]) < MaxRecorded
    /\ \E violation \in OwnedSamples :
          /\ violations' = [violations EXCEPT ![e] = add_violation(violations[e], violation)]
          /\ call' = [call EXCEPT ![e] = [op |-> "add_violation",
                                          recorded |-> Append(call[e].recorded, violation)]]
    /\ ret' = [ret EXCEPT ![e] = Ok(Unit)]
    /\ UNCHANGED <<config, builder, runtime, env, teardowns, exec_result>>

OwnedClearViolations(e) ==
    /\ violations' = [violations EXCEPT ![e] = clear_violations(violations[e])]
    /\ call' = [call EXCEPT ![e] = [op |-> "clear_violations", recorded |-> <<>>]]
    /\ ret' = [ret EXCEPT ![e] = Ok(Unit)]
    /\ UNCHANGED <<config, builder, runtime, env, teardowns, exec_result>>

\* execution e reads the log of its context: violations(&self)
OwnedViolations(e) ==
    /\ call' = [call EXCEPT ![e] = [op |-> "violations", recorded |-> call[e].recorded]]
    /\ ret' = [ret EXCEPT ![e] = violations[e]]
    /\ UNCHANGED <<config, violations, builder, runtime, env, teardowns, exec_result>>

NextOwned ==
    \/ \E e \in Executions : OwnedAddViolation(e)
    \/ \E e \in Executions : OwnedClearViolations(e)
    \/ \E e \in Executions : OwnedViolations(e)

SpecOwned == InitOwned /\ [][NextOwned]_vars

----------------------------------------------------------------------------
(* Properties *)

IsViolation(r, violation_type, severity) ==
    /\ r.tag = "Err"
    /\ r.val.violation_type = violation_type
    /\ r.val.severity = severity

AllFlagsOff(cfg) ==
    /\ ~cfg.sandbox_enabled /\ ~cfg.reentrancy_protection /\ ~cfg.overflow_detection
    /\ ~cfg.access_control_verification /\ ~cfg.gas_limit_enforcement
    /\ ~cfg.memory_limit_enforcement

\* C1: validate_call_depth(d) returns Ok when d <= max_call_depth (the limit
\* itself included) and a CallDepthExceeded violation of severity High when
\* d > max_call_depth, whatever the six flags of the policy are.
C1_CallDepth ==
    (call.op = "validate_call_depth" /\ Returned) =>
        IF call.call_depth <= config.max_call_depth
        THEN ret = Ok(Unit)
        ELSE IsViolation(ret, "CallDepthExceeded", "High")

\* the scenario max_call_depth = 3, depth 4, with every flag of the policy off
C1_Witness ==
    /\ call.op = "validate_call_depth" /\ Returned
    /\ config.max_call_depth = 3 /\ call.call_depth = 4
    /\ AllFlagsOff(config)
    /\ IsViolation(ret, "CallDepthExceeded", "High")

\* C2: validate_external_calls(c) returns an ExternalCallLimitExceeded violation
\* of severity High iff c > max_external_calls, and Ok otherwise.
C2_ExternalCalls ==
    (call.op = "validate_external_calls" /\ Returned) =>
        /\ IsViolation(ret, "ExternalCallLimitExceeded", "High")
              <=> call.call_count > config.max_external_calls
        /\ ret = Ok(Unit) <=> call.call_count <= config.max_external_calls

C2_Witness ==
    /\ call.op = "validate_external_calls" /\ Returned
    /\ config.max_external_calls = 10 /\ call.call_count = 11
    /\ IsViolation(ret, "ExternalCallLimitExceeded", "High")

\* C3: validate_gas_usage(used) returns GasLimitExceeded/High iff
\* gas_limit_enforcement is on and used > max_gas_limit, validate_memory_usage
\* likewise with memory_limit_enforcement and max_memory_bytes; with the flag
\* off neither violates.  Gas 500_000 passes under the strict and the
\* permissive preset and violates under an enforcing policy of limit 100_000.
C3_GasMemory ==
    /\ (call.op = "validate_gas_usage" /\ Returned) =>
          /\ IsViolation(ret, "GasLimitExceeded", "High")
                <=> (config.gas_limit_enforcement /\ call.gas_used > config.max_gas_limit)
          /\ ret.tag = "Err" \/ ret = Ok(Unit)
          /\ ~config.gas_limit_enforcement => ret = Ok(Unit)
          /\ (call.gas_used = 500000
              /\ config \in {SecurityConfig_strict, SecurityConfig_permissive})
                => ret = Ok(Unit)
          /\ (call.gas_used = 500000 /\ config.gas_limit_enforcement
              /\ config.max_gas_limit = 100000)
                => IsViolation(ret, "GasLimitExceeded", "High")
    /\ (call.op = "validate_memory_usage" /\ Returned) =>
          /\ IsViolation(ret, "MemoryLimitExceeded", "High")
                <=> (config.memory_limit_enforcement
                     /\ call.memory_used > config.max_memory_bytes)
          /\ ret.tag = "Err" \/ ret = Ok(Unit)
          /\ ~config.memory_limit_enforcement => ret = Ok(Unit)

C3_Witness ==
    /\ call.op = "validate_gas_usage" /\ Returned
    /\ call.gas_used = 500000 /\ config.max_gas_limit = 100000
    /\ config.gas_limit_enforcement
    /\ IsViolation(ret, "GasLimitExceeded", "High")

\* the positions of the call stack that hold the function
Occurrences(call_stack, function_name) ==
    {i \in 1..Len(call_stack) : call_stack[i] = function_name}

\* C4: check_reentrancy(f, caller, stack) returns a ReentrancyAttack violation
\* of severity Critical iff reentrancy_protection is on and f stands at two or
\* more positions of the supplied call stack; with the flag off it returns
\* Ok(false) for every stack.
C4_Reentrancy ==
    (call.op = "check_reentrancy" /\ Returned) =>
        /\ IsViolation(ret, "ReentrancyAttack", "Critical")
              <=> /\ config.reentrancy_protection
                  /\ \E i, j \in Occurrences(call.call_stack, call.function_name) : i < j
        /\ ret.tag = "Err" \/ ret = Ok(FALSE)
        /\ ~config.reentrancy_protection => ret = Ok(FALSE)

C4_Witness ==
    /\ call.op = "check_reentrancy" /\ Returned
    /\ call.call_stack = <<"a", "b", "a">> /\ call.function_name = "a"
    /\ config.reentrancy_protection
    /\ IsViolation(ret, "ReentrancyAttack", "Critical")

OutsideI64(n) == n > I64_MAX \/ n < I64_MIN

\* C5: with overflow_detection on, detect_overflow("add" or "+", [a, b])
\* returns an IntegerOverflow violation of severity High iff a + b lies
\* outside the signed range, above the maximum or below the minimum.
C5_AddOverflow ==
    (/\ call.op = "detect_overflow" /\ Returned
     /\ config.overflow_detection
     /\ call.operation \in {"add", "+"}
     /\ Len(call.operands) >= 2) =>
        /\ IF OutsideI64(call.operands[1] + call.operands[2])
           THEN IsViolation(ret, "IntegerOverflow", "High")
           ELSE ret = Ok(FALSE)
        /\ call.operands = <<10, 20>> => ret = Ok(FALSE)

C5_Witness ==
    /\ call.op = "detect_overflow" /\ Returned
    /\ config.overflow_detection
    /\ call.operation = "add" /\ call.operands = <<I64_MAX, 1>>
    /\ IsViolation(ret, "IntegerOverflow", "High")

\* C6: with overflow_detection on, detect_overflow("multiply" or "*", [a, b])
\* returns an IntegerOverflow violation of severity High iff a * b lies
\* outside the signed range; i64::MIN * -1 is such a product.
C6_MulOverflow ==
    (/\ call.op = "detect_overflow" /\ Returned
     /\ config.overflow_detection
     /\ call.operation \in {"multiply", "*"}
     /\ Len(call.operands) >= 2) =>
        IF OutsideI64(call.operands[1] * call.operands[2])
        THEN IsViolation(ret, "IntegerOverflow", "High")
        ELSE ret = Ok(FALSE)

C6_Witness ==
    /\ call.op = "detect_overflow" /\ Returned
    /\ config.overflow_detection
    /\ call.operation = "multiply" /\ call.operands = <<I64_MIN, -1>>
    /\ IsViolation(ret, "IntegerOverflow", "High")

\* C7: detect_overflow returns Ok(false) for every operation name other than
\* add, +, multiply, *, for every list of fewer than two operands, and for
\* every input when overflow_detection is off; and it never panics.
C7_OverflowUncovered ==
    (call.op = "detect_overflow" /\ Returned) =>
        /\ ret.tag # "Panic"
        /\ (\/ ~config.overflow_detection
            \/ call.operation \notin {"add", "+", "multiply", "*"}
            \/ Len(call.operands) < 2) => ret = Ok(FALSE)

C7_Witness ==
    /\ call.op = "detect_overflow" /\ Returned
    /\ config.overflow_detection
    /\ call.operation = "add" /\ call.operands = <<>>
    /\ ret = Ok(FALSE)

\* the caller is some prefix followed by the characters of admin
HasAdminSuffix(caller) ==
    \E k \in 0..Len(caller) : caller = SubSeq(caller, 1, k) \o STR_admin

\* C8: verify_access_control returns Ok(true) when
\* access_control_verification is off or no role is required; with
\* verification on and the role admin required it returns an
\* AccessControlViolation iff the caller does not end with admin; every other
\* required role is granted to every caller.
C8_AccessControl ==
    (call.op = "verify_access_control" /\ Returned) =>
        /\ (~config.access_control_verification \/ call.required_role = None)
              => ret = Ok(TRUE)
        /\ (config.access_control_verification /\ call.required_role = Some(STR_admin))
              => (ret.tag = "Err" /\ ret.val.violation_type = "AccessControlViolation")
                     <=> ~HasAdminSuffix(call.caller)
        /\ (call.required_role # None /\ call.required_role # Some(STR_admin))
              => ret = Ok(TRUE)
        /\ ret.tag = "Err" \/ ret = Ok(TRUE)

C8_Witness ==
    /\ call.op = "verify_access_control" /\ Returned
    /\ config.access_control_verification
    /\ call.required_role = Some(STR_admin)
    /\ call.caller = <<"0", "x">> \o STR_admin
    /\ ret = Ok(TRUE)

\* the number of the four validator checks that fail for the measurements
FailingChecks(c) ==
    LET failed(r) == IF r.tag = "Err" THEN 1 ELSE 0
    IN  failed(validate_gas_usage(c.security_config, c.gas_used, 0))
        + failed(validate_memory_usage(c.security_config, c.memory_used, 0))
        + failed(validate_call_depth(c.security_config, c.call_depth, 0))
        + failed(validate_external_calls(c.security_config, c.external_calls, 0))

\* C9: enforce_resource_limits returns a list whose length is the number of
\* the four resource checks (gas, memory, call depth, external calls) that
\* fail under the given policy for the given measurements.
C9_AllFailuresListed ==
    (call.op = "enforce_resource_limits" /\ Returned) =>
        /\ ret.tag = "Ok"
        /\ Len(ret.val) = FailingChecks(call)

SeverityCount(vs, severity) ==
    Cardinality({i \in 1..Len(vs) : vs[i].severity = severity})

\* C10: after any sequence of add_violation calls the four counts of
\* violation_count_by_severity() (critical, high, medium, low) sum to the
\* number of recorded violations, and each is the number of recorded
\* violations of its severity.
C10_CountBySeverity ==
    (call.op = "violation_count_by_severity") =>
        /\ ret.val[1] + ret.val[2] + ret.val[3] + ret.val[4] = Len(violations)
        /\ ret.val[1] = SeverityCount(violations, "Critical")
        /\ ret.val[2] = SeverityCount(violations, "High")
        /\ ret.val[3] = SeverityCount(violations, "Medium")
        /\ ret.val[4] = SeverityCount(violations, "Low")

C10_Witness ==
    /\ call.op = "violation_count_by_severity"
    /\ Len(violations) = 3
    /\ ret.val = <<1, 1, 0, 1>>

\* C11: in every reachable state of a SecurityContext,
\* has_critical_violations() is true iff at least one recorded violation has
\* severity Critical, which is iff the critical count of
\* violation_count_by_severity() is not zero.
C11_HasCritical ==
    (call.op = "has_critical_violations") =>
        /\ ret.val = TRUE <=> SeverityCount(violations, "Critical") >= 1
        /\ ret.val = TRUE <=> violation_count_by_severity(violations)[1] # 0

\* a critical violation that is not the last one recorded
C11_Witness ==
    /\ call.op = "has_critical_violations"
    /\ ret.val = TRUE
    /\ Len(violations) = 3
    /\ violations[1].severity = "Critical"
    /\ violations[3].severity = "Low"

\* the six limits of a RuntimeConfig that validate() inspects, by message
ZeroLimitMessages(c) ==
    {m \in {"Timeout cannot be zero", "Memory limit cannot be zero",
            "Maximum call depth cannot be zero", "Maximum external calls cannot be zero",
            "Maximum gas limit cannot be zero", "Maximum memory bytes cannot be zero"} :
        \/ m = "Timeout cannot be zero" /\ c.timeout_seconds = 0
        \/ m = "Memory limit cannot be zero" /\ c.memory_limit_mb = 0
        \/ m = "Maximum call depth cannot be zero" /\ c.security_config.max_call_depth = 0
        \/ m = "Maximum external calls cannot be zero"
              /\ c.security_config.max_external_calls = 0
        \/ m = "Maximum gas limit cannot be zero" /\ c.security_config.max_gas_limit = 0
        \/ m = "Maximum memory bytes cannot be zero"
              /\ c.security_config.max_memory_bytes = 0}

\* C12: validate() returns an error iff at least one of timeout_seconds,
\* memory_limit_mb, max_call_depth, max_external_calls, max_gas_limit,
\* max_memory_bytes is zero; build() returns the configuration exactly when
\* validate() succeeds and the validation error otherwise, after every
\* sequence of builder setters.
C12_ValidateBuild ==
    /\ (call.op = "validate") =>
          IF ZeroLimitMessages(call.config) = {}
          THEN ret = Ok(Unit)
          ELSE ret.tag = "Err" /\ ret.val \in ZeroLimitMessages(call.config)
    /\ (call.op = "build") =>
          IF ZeroLimitMessages(call.config) = {}
          THEN ret = Ok(call.config)
          ELSE ret.tag = "Err" /\ ret.val \in ZeroLimitMessages(call.config)

\* a builder whose only zero limit is max_memory_bytes, set after other setters
C12_Witness ==
    /\ call.op = "build"
    /\ call.config.timeout_seconds = 60
    /\ call.config.security_config.max_memory_bytes = 0
    /\ ret = Err("Maximum memory bytes cannot be zero")

AllFlagsOn(cfg) ==
    /\ cfg.sandbox_enabled /\ cfg.reentrancy_protection /\ cfg.overflow_detection
    /\ cfg.access_control_verification /\ cfg.gas_limit_enforcement
    /\ cfg.memory_limit_enforcement

\* C14: local_development() has every flag of its policy off and the Local
\* network; production() has every flag on and the MainnetFork network;
\* testing() has timeout 60 and every flag off; default() has timeout 300,
\* memory 1024, Local and monitoring on; validate() of default() and of each
\* of the three presets is Ok.
C14_Presets ==
    /\ (call.op = "local_development") =>
          AllFlagsOff(ret.security_config) /\ ret.network_mode = "Local"
    /\ (call.op = "production") =>
          AllFlagsOn(ret.security_config) /\ ret.network_mode = "MainnetFork"
    /\ (call.op = "testing") =>
          ret.timeout_seconds = 60 /\ AllFlagsOff(ret.security_config)
    /\ (call.op = "default") =>
          /\ ret.timeout_seconds = 300 /\ ret.memory_limit_mb = 1024
          /\ ret.network_mode = "Local" /\ ret.enable_monitoring
    /\ (call.op = "validate"
          /\ call.from \in {"default", "local_development", "production", "testing"}) =>
          ret = Ok(Unit)

C14_Witness ==
    /\ call.op = "validate" /\ call.from = "production"
    /\ call.config.network_mode = "MainnetFork"
    /\ AllFlagsOn(call.config.security_config)
    /\ ret = Ok(Unit)

AllLimitsPositive(cfg) ==
    /\ cfg.max_call_depth > 0 /\ cfg.max_external_calls > 0
    /\ cfg.max_gas_limit > 0 /\ cfg.max_memory_bytes > 0

\* C13: no environment is created from a policy with a zero limit: whenever
\* create_environment succeeds, max_call_depth, max_external_calls,
\* max_gas_limit and max_memory_bytes of the configuration's policy are > 0.
C13_ZeroLimitRejected ==
    (call.op = "create_environment" /\ ret.tag = "Ok") =>
        AllLimitsPositive(call.config.security_config)

\* C15: create_environment returns Ok or Err, and the environment of an Ok
\* is in state Ready, whatever the configuration and the clock.
C15_CreatedReady ==
    (call.op = "create_environment") =>
        /\ ret.tag \in {"Ok", "Err"}
        /\ ret.tag = "Ok" => ret.val.state = "Ready" /\ env = Some(ret.val)

C15_Witness ==
    /\ call.op = "create_environment"
    /\ call.config = RuntimeConfig_production
    /\ ret.tag = "Ok" /\ ret.val.state = "Ready"
    /\ ret.val.environment_id = <<"env_", 1>>

\* C16: after an execute on an environment that was Ready or Running, the
\* call has produced one result and the environment is Ready.
C16_ExecuteReturnsToReady ==
    (call.op = "execute" /\ call.env.state \in {"Ready", "Running"}) =>
        /\ ret.tag = "Ok" /\ exec_result = Some(ret.val)
        /\ env # None /\ env[1].state = "Ready"

\* C17: a destroy of an environment that was already destroyed, and an
\* execute on a destroyed environment, return an error.
C17_UseAfterTeardown ==
    /\ (call.op = "destroy" /\ teardowns > 1) => ret.tag = "Err"
    /\ (call.op = "execute" /\ teardowns > 0) => ret.tag = "Err"

Accessors == {"capabilities", "metrics_definition", "is_available", "blockchain_id"}

\* what each accessor returns, from the fields of the runtime alone
AccessorValue(op, self) ==
    CASE op = "capabilities" -> self.capabilities
      [] op = "metrics_definition" -> metrics_definition(self)
      [] op = "is_available" -> TRUE
      [] op = "blockchain_id" -> self.blockchain_id

\* C18: once the runtime exists, capabilities, metrics_definition,
\* is_available and blockchain_id can be called whatever the state of the
\* environment (none, any EnvironmentState, destroyed); a call leaves the
\* environment, the teardown count, the last result and the runtime's fields
\* unchanged; and the value returned depends on the runtime's fields only,
\* so a repeated call returns the same value.
C18_Accessors ==
    /\ [](runtime # None =>
            /\ ENABLED Capabilities /\ ENABLED MetricsDefinition
            /\ ENABLED IsAvailable /\ ENABLED BlockchainId)
    /\ [](call.op \in Accessors => ret = AccessorValue(call.op, runtime[1]))
    /\ [][call'.op \in Accessors =>
            /\ env' = env /\ runtime' = runtime
            /\ teardowns' = teardowns /\ exec_result' = exec_result
            /\ (call.op = call'.op => ret' = ret)]_vars

\* an accessor called on a runtime with custom capabilities whose
\* environment is Stopped and already destroyed once
C18_Witness ==
    /\ call.op = "capabilities"
    /\ ret.supports_gas_estimation
    /\ env # None /\ env[1].state = "Stopped" /\ teardowns = 1

\* C19: the result of every execute_secure call, after any sequence of
\* earlier executions on the environment, carries a security context with
\* zero counters, an empty call stack, no access-control checks and no
\* violations, and that result is the one the caller holds.
C19_FreshContext ==
    (call.op = "execute_secure") =>
        /\ ret.tag = "Ok"
        /\ ret.val.security_context.call_depth = 0
        /\ ret.val.security_context.external_call_count = 0
        /\ ret.val.security_context.gas_used = 0
        /\ ret.val.security_context.memory_used = 0
        /\ ret.val.security_context.call_stack = <<>>
        /\ ret.val.security_context.access_control_checks = <<>>
        /\ ret.val.security_context.security_violations = <<>>
        /\ exec_result = Some(ret.val)

C19_Witness ==
    /\ call.op = "execute_secure"
    /\ call.inputs.target_function = "b"
    /\ call.env.state = "Running"
    /\ ret.tag = "Ok" /\ ret.val.security_context = SecureExecutionContext_default

\* C20: in every ExecutionResult made by ExecutionResult::new and changed
\* by add_security_violation, error is present iff success is false, except
\* that success = false with no error is allowed when security_violations is
\* not empty.
C20_ErrorIffFailure ==
    (exec_result # None) =>
        LET r == exec_result[1]
        IN  \/ (r.error # None) <=> ~r.success
            \/ ~r.success /\ r.error = None /\ r.security_violations # <<>>

\* C21: add_security_violation, for a violation of any severity, leaves
\* execution_id, success, error, return_value, state_changes, events,
\* metrics, execution_time_ms and the security context of the result as they
\* were, and appends the violation to the result's list.
C21_ViolationsOrthogonal ==
    [][(call'.op = "add_security_violation") =>
          LET before == exec_result[1]
              after == exec_result'[1]
          IN  /\ after.success = before.success
              /\ after.error = before.error
              /\ after.return_value = before.return_value
              /\ after.state_changes = before.state_changes
              /\ after.events = before.events
              /\ after.metrics = before.metrics
              /\ after.execution_id = before.execution_id
              /\ after.execution_time_ms = before.execution_time_ms
              /\ after.security_context = before.security_context
              /\ Len(after.security_violations) = Len(before.security_violations) + 1
              /\ SubSeq(after.security_violations, 1, Len(before.security_violations))
                    = before.security_violations]_vars

\* a successful result that carries a Critical violation
C21_Witness ==
    /\ call.op = "add_security_violation"
    /\ exec_result[1].success = TRUE /\ exec_result[1].error = None
    /\ Len(exec_result[1].security_violations) = 2
    /\ exec_result[1].security_violations[2].severity = "Critical"

\* C22: the violations log of a SecurityContext is append-only: every
\* operation of the context leaves the violations recorded so far in their
\* positions (the log before is a prefix of the log after), and
\* add_violation lengthens it by exactly one.
C22_AppendOnly ==
    [][/\ Len(violations') >= Len(violations)
       /\ SubSeq(violations', 1, Len(violations)) = violations
       /\ (call'.op = "add_violation") => Len(violations') = Len(violations) + 1]_vars

\* the outcome of a check: pass, or the kind and the severity of the violation
Outcome(r) ==
    IF r.tag = "Err" THEN <<"Err", r.val.violation_type, r.val.severity>>
    ELSE <<r.tag, r.val>>

\* C23: with several executions issuing checks on one validator in every
\* interleaving, no step changes the policy or any other shared variable, a
\* step of one execution leaves the call and the result of every other
\* execution alone, and the outcome each check returns (pass, or kind and
\* severity) is the outcome of that check on the same inputs and policy run
\* by itself.
C23_ChecksPure ==
    /\ [][/\ config' = config /\ violations' = violations
          /\ \E e \in Executions :
                \A o \in Executions \ {e} : call'[o] = call[o] /\ ret'[o] = ret[o]]_vars
    /\ [](\A e \in Executions :
            (call[e] # NoCall /\ ret[e].tag # "Pending") =>
                Outcome(ret[e]) = Outcome(run_check(config, call[e], 0)))

\* two checks in flight at once, then both returned with a violation
C23_Witness ==
    /\ call[1].op = "validate_call_depth" /\ call[2].op = "check_reentrancy"
    /\ ret[1].tag = "Err" /\ ret[1].val.violation_type = "CallDepthExceeded"
    /\ ret[2].tag = "Err" /\ ret[2].val.violation_type = "ReentrancyAttack"
    /\ ret[1].val.timestamp > ret[2].val.timestamp

\* C24: with concurrent executions that each own a SecurityContext, in
\* every interleaving the log of each context is exactly the violations its
\* own execution handed to add_violation (since it last emptied the
\* context), in that order; a step of one execution leaves the log of every
\* other context as it was; and what an execution reads from its context is
\* its own log.
C24_ContextOwned ==
    /\ [](\A e \in Executions :
            /\ violations[e] = call[e].recorded
            /\ call[e].op = "violations" => ret[e] = call[e].recorded)
    /\ [][\E e \in Executions :
            \A o \in Executions \ {e} : violations'[o] = violations[o]]_vars

\* two interleaved executions with different logs
C24_Witness ==
    /\ Len(violations[1]) = 2 /\ Len(violations[2]) = 1
    /\ violations[1][1].severity = "Critical" /\ violations[1][2].severity = "Medium"
    /\ violations[2][1].severity = "Medium"
    /\ call[1].op = "violations" /\ ret[1] = violations[1]
    /\ call[2].op = "add_violation"

\* the order Low < Medium < High < Critical
SeverityRank(severity) ==
    CASE severity = "Low" -> 1
      [] severity = "Medium" -> 2
      [] severity = "High" -> 3
      [] severity = "Critical" -> 4

\* C25: get_highest_severity returns None iff the result has no violation,
\* which is iff has_security_violations is false; otherwise it returns a
\* severity that occurs in the list and that no severity in the list exceeds
\* under Low < Medium < High < Critical, wherever it stands in the list.
C25_HighestSeverity ==
    /\ (call.op = "get_highest_severity") =>
          LET vs == exec_result[1].security_violations
          IN  /\ ret = None <=> vs = <<>>
              /\ ret = None <=> ~has_security_violations(exec_result[1])
              /\ vs # <<>> =>
                    /\ \E i \in 1..Len(vs) : ret = Some(vs[i].severity)
                    /\ \A i \in 1..Len(vs) :
                          SeverityRank(vs[i].severity) <= SeverityRank(ret[1])
    /\ (call.op = "has_security_violations") =>
          (ret = TRUE <=> Len(exec_result[1].security_violations) > 0)

\* the greatest severity added first, lesser ones after it
C25_Witness ==
    /\ call.op = "get_highest_severity" /\ ret = Some("Critical")
    /\ Len(exec_result[1].security_violations) = 3
    /\ exec_result[1].security_violations[1].severity = "Critical"
    /\ exec_result[1].security_violations[2].severity = "Low"
    /\ exec_result[1].security_violations[3].severity = "High"

\* C26: in every ExecutionResult built by ExecutionResult::new and changed
\* by add_security_violation, the top-level list security_violations equals
\* the list security_violations of its security context.
C26_ViolationViews ==
    (exec_result # None) =>
        exec_result[1].security_violations
            = exec_result[1].security_context.security_violations

\* C27: the result of execute_secure is the same for every security policy
\* on the same environment, code and inputs (the policy passed and every
\* other policy), it equals the result of execute on them, and it has the
\* execution id and success of that result, no error, no violations and the
\* all-zero context; execute_secure returns an error exactly when execute does.
C27_PolicyIndependent ==
    (call.op = "execute_secure") =>
        LET plain == execute(runtime[1], call.env, call.code_path, call.inputs)
        IN  /\ \A policy \in SecurityConfig :
                  execute_secure(runtime[1], call.env, call.code_path, call.inputs, policy) = ret
            /\ ret = plain
            /\ ret.tag = "Err" <=> plain.tag = "Err"
            /\ ret.tag = "Ok" =>
                  /\ ret.val.error = None /\ ret.val.security_violations = <<>>
                  /\ ret.val.security_context = SecureExecutionContext_default

\* secure execution under a policy whose four limits are zero
C27_Witness ==
    /\ call.op = "execute_secure"
    /\ call.security_config = Limits(0, 0, 0, 0) @@ SecurityConfig_strict
    /\ ret.tag = "Ok" /\ ret.val.success = TRUE /\ ret.val.execution_id = "exec_123"

====
